---------------------------- MODULE Spec2Model ----------------------------
(***************************************************************************)
(* Model of compressor_toolkit/precompilers.py: BaseCompiler.input(),      *)
(* BaseCompiler.get_all_static(), SCSSCompiler.__init__ and                *)
(* ES6Compiler.__init__.                                                   *)
(*                                                                         *)
(* Strings are sequences of tokens (a path, a flag, a separator), so that  *)
(* joining and formatting are computed and not assumed.  A compiler        *)
(* instance ("job") is modelled one at a time: it is constructed, input()  *)
(* is called on it (possibly more than once), and a later job may be       *)
(* constructed after it.  The base class CompilerFilter of django-         *)
(* compressor is not part of this repository; the steps that run inside    *)
(* super().__init__ and super().input are the Super* definitions below.    *)
(***************************************************************************)
EXTENDS Naturals, Sequences, FiniteSets, TLC

\* ---- bounds of the model ------------------------------------------------
\* longest STATICFILES_FINDERS list enumerated by SpecStatic
MaxFinders == 2
\* number of compiler instances constructed in one behaviour
MaxJobs == 2
\* number of input() calls on one instance
MaxCalls == 2

\* ---- values ---------------------------------------------------------------
\* Python's None, as a string value no path or option can take
None == <<"<None>">>

\* storage root directories
Dirs == {"/a/static", "/b/static", "/c/static"}

\* ---- static-file finders (django.contrib.staticfiles.finders) -------------
\* The finders get_finder() can be asked for.  "storages" is the finder's
\* mapping of storage name -> location (absent: NoAttr), "storage" the
\* location of its single storage (absent: NoAttr); "bad" does not resolve.
NoAttr == "<no attribute>"

FinderIds == {"fs", "app", "default", "both", "neither", "bad"}

Resolves(id) == id # "bad"

HasStorages(id) == id \in {"fs", "app", "both"}

HasStorage(id) == id \in {"default", "both"}

\* finder.storages: storage name -> storage.location
Storages(id) ==
    CASE id = "fs"   -> [k \in {"s1", "s2", "s3"} |->
                            IF k = "s2" THEN "/b/static" ELSE "/a/static"]
      [] id = "app"  -> [k \in {"app1", "app2"} |->
                            IF k = "app1" THEN "/b/static" ELSE "/c/static"]
      [] id = "both" -> [k \in {"s1"} |-> "/c/static"]
      [] OTHER       -> [k \in {} |-> NoAttr]

\* finder.storage.location
StorageLocation(id) ==
    CASE id = "default" -> "/a/static"
      [] id = "both"    -> "/c/static"
      [] OTHER          -> NoAttr

\* ---- BaseCompiler.get_all_static ------------------------------------------
\* faulty variant: the single `storage` of a finder is never looked at
AddFinderStoragesOnly(static_dirs, id) ==
    IF HasStorages(id)
    THEN static_dirs \cup {Storages(id)[k] : k \in DOMAIN Storages(id)}
    ELSE static_dirs

\* the body of the loop for one resolved finder: both hasattr tests are
\* independent `if`s, each adding into the same set
AddFinder(static_dirs, id) ==
    LET withStorages ==
            IF HasStorages(id)
            THEN static_dirs \cup {Storages(id)[k] : k \in DOMAIN Storages(id)}
            ELSE static_dirs
    IN  IF HasStorage(id)
        THEN withStorages \cup {StorageLocation(id)}
        ELSE withStorages

RECURSIVE StaticLoop(_, _)

\* faulty variant: an unresolvable finder is skipped and the loop goes on
OnUnresolvedSkip(static_dirs, rest) == StaticLoop(static_dirs, rest)

\* what happens when finders.get_finder(finder) raises: the exception leaves
\* the loop and get_all_static (no try/except around it)
OnUnresolved(static_dirs, rest) == [raised |-> TRUE, dirs |-> {}]

StaticLoop(static_dirs, finders) ==
    IF finders = <<>>
    THEN [raised |-> FALSE, dirs |-> static_dirs]
    ELSE IF Resolves(Head(finders))
         THEN StaticLoop(AddFinder(static_dirs, Head(finders)), Tail(finders))
         ELSE OnUnresolved(static_dirs, Tail(finders))

\* get_all_static() for a given settings.STATICFILES_FINDERS
get_all_static(finders) == StaticLoop({}, finders)

\* ---- the 'paths' values ----------------------------------------------------
\* every order a set can be iterated in
Orders(S) ==
    {o \in [1..Cardinality(S) -> S] : \A d \in S : \E i \in DOMAIN o : o[i] = d}

RECURSIVE Join(_, _)
\* sep.join(parts): parts is a sequence of strings (token sequences)
Join(sep, parts) ==
    IF parts = <<>> THEN <<>>
    ELSE IF Len(parts) = 1 THEN Head(parts)
    ELSE Head(parts) \o sep \o Join(sep, Tail(parts))

\* '--include-path {}'.format(s)
IncludeFlag(s) == <<"--include-path ", s>>

\* faulty variant: one flag in front of the space-joined directories
SCSSPathsOneFlag(order) ==
    IF order = <<>> THEN <<>>
    ELSE <<"--include-path ">> \o Join(<<" ">>, [i \in DOMAIN order |-> <<order[i]>>])

\* SCSSCompiler: ' '.join(['--include-path {}'.format(s) for s in order])
SCSSPaths(order) ==
    Join(<<" ">>, [i \in DOMAIN order |-> IncludeFlag(order[i])])

\* ES6Compiler: os.pathsep.join(order)
ES6Paths(sep, order) ==
    Join(<<sep>>, [i \in DOMAIN order |-> <<order[i]>>])


\* ---- settings and class attributes ----------------------------------------
\* getattr(settings, 'COMPRESS_NODE_MODULES', '/usr/lib/node_modules');
\* nm is None when the setting is absent
NodeModules(nm) == IF nm = None THEN <<"/usr/lib/node_modules">> ELSE nm

\* BaseCompiler.infile_ext and its overrides
infile_ext(k) ==
    CASE k = "SCSSCompiler" -> ".scss"
      [] k = "ES6Compiler"  -> ".js"
      [] OTHER              -> ""

\* the placeholders of SCSSCompiler.command and ES6Compiler.command
SCSSCommand == {"paths", "infile", "outfile"}

ES6Command == {"node_modules", "paths", "infile", "outfile"}

\* the command templates a compiler class (or a subclass overriding
\* `command`) may carry, each as the set of its placeholders: the two
\* shipped ones, one reading stdin (no {infile}), one with a placeholder
\* nothing resolves
Commands ==
    {SCSSCommand, ES6Command, {"paths", "outfile"},
     {"paths", "infile", "outfile", "missing"}}

Kinds == {"SCSSCompiler", "ES6Compiler"}

\* ---- inputs of a job -------------------------------------------------------
\* raw source text, as characters
Contents == {<<"a">>, <<"a", "e-acute">>}

Encodings == {"utf-8", "ascii"}

\* caller-provided filename (None: content only)
Filenames == {None, <<"app/static/src.in">>}

\* further caller-supplied keyword options
ExtraOptions ==
    {<<>>,
     << <<"paths", <<"--include-path ", "/caller/static">>>> >>,
     << <<"infile", <<"caller.in">>>> >>}

\* the **kwargs of one construction: filename (when given) and the extras
Kwargs(fname, extra) ==
    (IF fname = None THEN <<>> ELSE << <<"filename", fname>> >>) \o extra

\* STATICFILES_FINDERS lists the job model is run with
FinderLists ==
    {<<>>, <<"fs">>, <<"default", "neither">>, <<"fs", "bad">>}

\* ---- content.encode(default_encoding) --------------------------------------
EncodeChar(c, enc) ==
    CASE c = "a"                          -> [ok |-> TRUE, bytes |-> <<"61">>]
      [] c = "e-acute" /\ enc = "utf-8"   -> [ok |-> TRUE, bytes |-> <<"c3", "a9">>]
      [] OTHER                            -> [ok |-> FALSE, bytes |-> <<>>]

RECURSIVE Encode(_, _)
Encode(text, enc) ==
    IF text = <<>> THEN [ok |-> TRUE, bytes |-> <<>>]
    ELSE LET h == EncodeChar(Head(text), enc)
             t == Encode(Tail(text), enc)
         IN  [ok |-> h.ok /\ t.ok, bytes |-> h.bytes \o t.bytes]

\* ---- options ---------------------------------------------------------------
\* self.options is a tuple of (name, value) pairs
Keys(opts) == {opts[i][1] : i \in DOMAIN opts}

Indices(opts, k) == {i \in DOMAIN opts : opts[i][1] = k}

Last(S) == CHOOSE i \in S : \A j \in S : j <= i

First(S) == CHOOSE i \in S : \A j \in S : i <= j

\* dict(self.options): for a repeated name the last pair wins
Dict(opts) == [k \in Keys(opts) |-> opts[Last(Indices(opts, k))][2]]

\* d[k] = v
Put(d, k, v) == [x \in DOMAIN d \cup {k} |-> IF x = k THEN v ELSE d[x]]

\* ---- temporary files ---------------------------------------------------------
\* NamedTemporaryFile(mode='wb', suffix=ext).name for the n-th job
TmpName(n, ext) == <<"/tmp/tmp", ToString(n), ext>>

\* the extension of a file name
Ext(name) == name[Len(name)]

NewFile == [held |-> TRUE, buf |-> <<>>, disk |-> <<>>]


\* ---- state -----------------------------------------------------------------
VARIABLES
    STATICFILES_FINDERS,    \* settings.STATICFILES_FINDERS
    COMPRESS_NODE_MODULES,  \* settings.COMPRESS_NODE_MODULES, None when unset
    default_encoding,       \* CompilerFilter.default_encoding
    pathsep,                \* os.pathsep
    class_options,          \* the class attribute `options` the compilers inherit
    pc,                     \* where the current job is
    exc,                    \* the exception that ended the last call, "none"
    kind,                   \* class of the current instance
    command,                \* self.command, as its set of placeholders
    content,                \* self.content
    filename,               \* self.filename
    infile,                 \* self.infile: None or the name of the file it holds
    outfile,                \* self.outfile: None or the temporary output file
    options,                \* self.options
    fresh,                  \* this input() call created self.infile
    cmdline,                \* the substituted command: placeholder -> value
    invoked,                \* the commands this job handed to subprocess.Popen
    fs,                     \* temporary input files: name -> [held, buf, disk]
    jobs,                   \* instances constructed so far
    calls,                  \* input() calls on the current instance
    static_ret,             \* SpecStatic: what get_all_static() returned
    paths_ret               \* SpecStatic: the 'paths' value formatted from it

settingsVars == <<STATICFILES_FINDERS, COMPRESS_NODE_MODULES, default_encoding, pathsep>>

selfVars == <<kind, command, content, filename, infile, outfile, options>>

staticVars == <<static_ret, paths_ret>>

vars ==
    <<STATICFILES_FINDERS, COMPRESS_NODE_MODULES, default_encoding, pathsep,
      class_options, pc, exc, kind, command, content, filename, infile,
      outfile, options, fresh, cmdline, invoked, fs, jobs, calls,
      static_ret, paths_ret>>

NoCommand == [p \in {} |-> None]

NoReturn == [called |-> FALSE, raised |-> FALSE, dirs |-> {}]

NoPaths == [kind |-> "none", order |-> <<>>, value |-> <<>>]

\* no instance exists; the class attribute is CompilerFilter's empty tuple
NoJob ==
    /\ class_options = <<>>
    /\ pc = "none" /\ exc = "none"
    /\ kind = "none" /\ command = {} /\ content = <<>>
    /\ filename = None /\ infile = None /\ outfile = None
    /\ options = <<>> /\ fresh = FALSE
    /\ cmdline = NoCommand /\ invoked = {}
    /\ fs = [n \in {} |-> NewFile]
    /\ jobs = 0 /\ calls = 0
    /\ static_ret = NoReturn /\ paths_ret = NoPaths

Init ==
    /\ STATICFILES_FINDERS \in FinderLists
    /\ COMPRESS_NODE_MODULES \in {None, <<"/srv/node_modules">>}
    /\ default_encoding \in Encodings
    /\ pathsep \in {":", ";"}
    /\ NoJob

Terminal == {"returned", "raised", "init_raised"}

\* ---- construction ------------------------------------------------------------
\* faulty variant: the class attribute is extended in place (a list)
ClassOptionsExtended(cls_opts, added) == cls_opts \o added

\* `self.options += (...)` on a tuple: the instance gets a new tuple, the
\* class attribute it was read from stays as it was
ClassOptionsAfterInit(cls_opts, added) == cls_opts

\* SCSSCompiler.__init__: the tuple bound to self.options
SCSSOptions(cls_opts, order) ==
    cls_opts \o << <<"paths", SCSSPaths(order)>> >>

\* ES6Compiler.__init__: the tuple bound to self.options
ES6Options(cls_opts, nm, sep, order) ==
    cls_opts \o << <<"node_modules", NodeModules(nm)>>,
                   <<"paths", ES6Paths(sep, order)>> >>

\* CompilerFilter.__init__(content, command, **kwargs): the attributes it
\* sets; every keyword argument is appended to self.options
SuperInit(k, cmd, cont, fname, extra, opts) ==
    /\ kind' = k
    /\ command' = cmd
    /\ content' = cont
    /\ filename' = fname
    /\ options' = opts \o Kwargs(fname, extra)
    /\ infile' = None
    /\ outfile' = None

\* what every construction resets
NewJob ==
    /\ pc \in {"none"}
    /\ jobs < MaxJobs
    /\ jobs' = jobs + 1
    /\ calls' = 0
    /\ fresh' = FALSE
    /\ cmdline' = NoCommand
    /\ invoked' = {}
    /\ UNCHANGED <<settingsVars, staticVars, fs>>

\* get_all_static() raised inside __init__: nothing was assigned
InitRaised(k) ==
    /\ pc' = "init_raised"
    /\ exc' = "ImproperlyConfigured"
    /\ kind' = k
    /\ UNCHANGED <<command, content, filename, infile, outfile, options,
                   class_options>>

SCSSCompilerInit ==
    /\ NewJob
    /\ LET r == get_all_static(STATICFILES_FINDERS) IN
       IF r.raised
       THEN InitRaised("SCSSCompiler")
       ELSE \E order \in Orders(r.dirs), cmd \in Commands, cont \in Contents,
               fname \in Filenames, extra \in ExtraOptions :
              /\ SuperInit("SCSSCompiler", cmd, cont, fname, extra,
                           SCSSOptions(class_options, order))
              /\ class_options' =
                     ClassOptionsAfterInit(class_options,
                                           SCSSOptions(<<>>, order))
              /\ pc' = "ready"
              /\ exc' = "none"

ES6CompilerInit ==
    /\ NewJob
    /\ LET r == get_all_static(STATICFILES_FINDERS) IN
       IF r.raised
       THEN InitRaised("ES6Compiler")
       ELSE \E order \in Orders(r.dirs), cmd \in Commands, cont \in Contents,
               fname \in Filenames, extra \in ExtraOptions :
              /\ SuperInit("ES6Compiler", cmd, cont, fname, extra,
                           ES6Options(class_options, COMPRESS_NODE_MODULES,
                                      pathsep, order))
              /\ class_options' =
                     ClassOptionsAfterInit(class_options,
                         ES6Options(<<>>, COMPRESS_NODE_MODULES, pathsep, order))
              /\ pc' = "ready"
              /\ exc' = "none"

\* the caller drops the instance once its call is over; the file object of a
\* temporary file still open is finalised with it, which deletes the file
Discard ==
    /\ pc \in Terminal \cup {"ready"}
    /\ pc' = "none"
    /\ exc' = "none"
    /\ kind' = "none" /\ command' = {} /\ content' = <<>>
    /\ filename' = None /\ infile' = None /\ outfile' = None
    /\ options' = <<>> /\ fresh' = FALSE
    /\ cmdline' = NoCommand /\ invoked' = {}
    /\ fs' = [n \in {} |-> NewFile]
    /\ calls' = 0
    /\ UNCHANGED <<settingsVars, staticVars, class_options, jobs>>


\* ---- BaseCompiler.input ------------------------------------------------------
\* faulty variant: the caller's filename is not looked at
NeedsTempFileAlways(inf, cmd, fname) == inf = None /\ "infile" \in cmd

\* the two nested conditions under which input() makes a temporary file
NeedsTempFile(inf, cmd, fname) ==
    inf = None /\ "infile" \in cmd /\ fname = None

\* NamedTemporaryFile(mode='wb', suffix=self.infile_ext)
InfileSuffix(k) == infile_ext(k)

\* self.infile.write(data): the data sits in the file object's buffer
Written(file, data) == [file EXCEPT !.buf = @ \o data]

\* faulty variant: no flush, the data stays in the buffer
NotFlushed(file) == file

\* self.infile.flush(): the buffer reaches the file on disk
Flushed(file) == [file EXCEPT !.disk = @ \o file.buf, !.buf = <<>>]

\* self.options += (('infile', self.infile.name),)
Recorded(opts, name) == opts \o << <<"infile", name>> >>

\* input() is entered: the tests of the two `if`s and, when both pass, the
\* creation of the temporary file
InputBegin ==
    /\ \/ pc = "ready"
       \/ pc \in {"returned", "raised"}
    /\ calls < MaxCalls
    /\ calls' = calls + 1
    /\ exc' = "none"
    /\ cmdline' = NoCommand
    /\ IF NeedsTempFile(infile, command, filename)
       THEN LET name == TmpName(jobs, InfileSuffix(kind)) IN
            /\ infile' = name
            /\ fs' = [n \in DOMAIN fs \cup {name} |->
                         IF n = name THEN NewFile ELSE fs[n]]
            /\ fresh' = TRUE
            /\ pc' = "write"
       ELSE /\ fresh' = FALSE
            /\ pc' = "super"
            /\ UNCHANGED <<infile, fs>>
    /\ UNCHANGED <<settingsVars, staticVars, class_options, kind, command,
                   content, filename, outfile, options, invoked, jobs>>

\* self.infile.write(self.content.encode(self.default_encoding)); an
\* encoding error leaves input() at once
InputWrite ==
    /\ pc = "write"
    /\ LET e == Encode(content, default_encoding) IN
       \/ /\ e.ok
          /\ fs' = [fs EXCEPT ![infile] = Written(@, e.bytes)]
          /\ pc' = "flush"
          /\ exc' = exc
       \/ /\ ~e.ok
          /\ pc' = "raised"
          /\ exc' = "UnicodeEncodeError"
          /\ fs' = fs
    /\ UNCHANGED <<settingsVars, staticVars, class_options, selfVars, fresh,
                   cmdline, invoked, jobs, calls>>

\* self.infile.flush(); the write to disk may fail (disk full), which leaves
\* input() at once
InputFlush ==
    /\ pc = "flush"
    /\ \/ /\ fs' = [fs EXCEPT ![infile] = Flushed(@)]
          /\ pc' = "record"
          /\ exc' = exc
       \/ /\ pc' = "raised"
          /\ exc' = "IOError"
          /\ fs' = fs
    /\ UNCHANGED <<settingsVars, staticVars, class_options, selfVars, fresh,
                   cmdline, invoked, jobs, calls>>

\* self.options += (('infile', self.infile.name),), then on to
\* super().input(**kwargs)
InputRecord ==
    /\ pc = "record"
    /\ options' = Recorded(options, infile)
    /\ pc' = "super"
    /\ UNCHANGED <<settingsVars, staticVars, class_options, exc, kind, command,
                   content, filename, infile, outfile, fresh, cmdline, invoked,
                   fs, jobs, calls>>

\* ---- CompilerFilter.input (the base filter) ----------------------------------
\* the marker left in a command for a placeholder nothing was substituted for
Literal(p) == <<"{", p, "}">>

\* faulty variant: a placeholder without a value is left as it stands
FormatPartial(cmd, d) ==
    [ok |-> TRUE,
     cmdline |-> [p \in cmd |-> IF p \in DOMAIN d THEN d[p] ELSE Literal(p)]]

\* self.command.format(**d): every placeholder needs a value, else KeyError
Format(cmd, d) ==
    IF cmd \subseteq DOMAIN d
    THEN [ok |-> TRUE, cmdline |-> [p \in cmd |-> d[p]]]
    ELSE [ok |-> FALSE, cmdline |-> NoCommand]

\* the base filter's `finally`: the input file, if any, is closed, which
\* deletes a temporary one
Released(files, inf) ==
    [n \in DOMAIN files |->
        IF n = inf THEN [held |-> FALSE, buf |-> <<>>, disk |-> <<>>]
        ELSE files[n]]

\* the name of the temporary output file of the current call
OutName == <<"/tmp/out", ToString(jobs), ToString(calls)>>

\* the mapping the command is formatted with: dict(self.options), the
\* caller's file as infile when the job has one and no input file is open
\* yet, and a temporary outfile unless an option names one
SubstOptions ==
    LET d0 == Dict(options)
        d1 == IF infile = None /\ "infile" \in command /\ filename # None
              THEN Put(d0, "infile", filename)
              ELSE d0
    IN  IF "outfile" \in command /\ "outfile" \notin DOMAIN d1
        THEN Put(d1, "outfile", OutName)
        ELSE d1

\* the base filter builds the mapping and substitutes the command; a
\* placeholder without a value raises before any process exists
SuperSubstitute ==
    /\ pc = "super"
    /\ infile' = IF infile = None /\ "infile" \in command /\ filename # None
                 THEN filename ELSE infile
    /\ outfile' = IF "outfile" \in command /\ "outfile" \notin DOMAIN Dict(options)
                  THEN OutName ELSE outfile
    /\ LET f == Format(command, SubstOptions) IN
       IF f.ok
       THEN /\ cmdline' = f.cmdline
            /\ pc' = "popen"
            /\ exc' = exc
            /\ fs' = fs
       ELSE /\ cmdline' = NoCommand
            /\ pc' = "raised"
            /\ exc' = "KeyError"
            /\ fs' = Released(fs, infile)
    /\ UNCHANGED <<settingsVars, staticVars, class_options, kind, command,
                   content, filename, options, fresh, invoked, jobs, calls>>

\* subprocess.Popen(command, shell=True) and communicate(): the process
\* cannot be spawned, exits non-zero, or exits zero; the `finally` runs in
\* every case
SuperRun ==
    /\ pc = "popen"
    /\ invoked' = invoked \cup {cmdline}
    /\ fs' = Released(fs, infile)
    /\ \E outcome \in {"OSError", "nonzero", "zero"} :
          IF outcome = "zero"
          THEN pc' = "returned" /\ exc' = "none"
          ELSE pc' = "raised" /\ exc' = "FilterError"
    /\ UNCHANGED <<settingsVars, staticVars, class_options, selfVars, fresh,
                   cmdline, jobs, calls>>

\* settings.STATICFILES_FINDERS is read anew by every get_all_static() call:
\* between two jobs the configured list may have become another one
SettingsChange ==
    /\ pc = "none"
    /\ jobs >= 1
    /\ \E f \in FinderLists :
          /\ f # STATICFILES_FINDERS
          /\ STATICFILES_FINDERS' = f
    /\ UNCHANGED <<COMPRESS_NODE_MODULES, default_encoding, pathsep,
                   class_options, pc, exc, selfVars, fresh, cmdline, invoked,
                   fs, jobs, calls, staticVars>>

\* ---- the job model -----------------------------------------------------------
Next ==
    \/ SettingsChange
    \/ SCSSCompilerInit
    \/ ES6CompilerInit
    \/ InputBegin
    \/ InputWrite
    \/ InputFlush
    \/ InputRecord
    \/ SuperSubstitute
    \/ SuperRun
    \/ Discard

Spec == Init /\ [][Next]_vars


\* ---- get_all_static() and the 'paths' formats on their own ---------------------
\* every list of at most n finder identifiers
ListsUpTo(n) == UNION {[1..k -> FinderIds] : k \in 0..n}

InitStatic ==
    /\ STATICFILES_FINDERS \in ListsUpTo(MaxFinders)
    /\ COMPRESS_NODE_MODULES = None
    /\ default_encoding = "utf-8"
    /\ pathsep \in {":", ";"}
    /\ NoJob

\* a call of BaseCompiler.get_all_static()
StaticCall ==
    /\ ~static_ret.called
    /\ LET r == get_all_static(STATICFILES_FINDERS) IN
       static_ret' = [called |-> TRUE, raised |-> r.raised, dirs |-> r.dirs]
    /\ UNCHANGED <<settingsVars, class_options, pc, exc, selfVars, fresh,
                   cmdline, invoked, fs, jobs, calls, paths_ret>>

\* the options SCSSCompiler.__init__ builds from the returned set, iterated
\* in some order
SCSSFormat ==
    /\ static_ret.called /\ ~static_ret.raised
    /\ paths_ret.kind = "none"
    /\ \E order \in Orders(static_ret.dirs) :
          paths_ret' = [kind |-> "SCSSCompiler", order |-> order,
                        value |-> Dict(SCSSOptions(class_options, order))["paths"]]
    /\ UNCHANGED <<settingsVars, class_options, pc, exc, selfVars, fresh,
                   cmdline, invoked, fs, jobs, calls, static_ret>>

\* the options ES6Compiler.__init__ builds from the returned set
ES6Format ==
    /\ static_ret.called /\ ~static_ret.raised
    /\ paths_ret.kind = "none"
    /\ \E order \in Orders(static_ret.dirs) :
          paths_ret' = [kind |-> "ES6Compiler", order |-> order,
                        value |-> Dict(ES6Options(class_options,
                                         COMPRESS_NODE_MODULES, pathsep,
                                         order))["paths"]]
    /\ UNCHANGED <<settingsVars, class_options, pc, exc, selfVars, fresh,
                   cmdline, invoked, fs, jobs, calls, static_ret>>

NextStatic ==
    \/ StaticCall
    \/ SCSSFormat
    \/ ES6Format

SpecStatic == InitStatic /\ [][NextStatic]_vars


\* ---- properties ----------------------------------------------------------------
\* an option value that is the name of a temporary input file
IsTmpName(v) == Len(v) = 3 /\ v[1] = "/tmp/tmp"

\* the 'infile' entries of self.options that BaseCompiler.input recorded
BaseInfileEntries == {i \in Indices(options, "infile") : IsTmpName(options[i][2])}

\* the storage roots a list of finders exposes, said without the loop
ExposedRoots(finders) ==
    {d \in Dirs :
        \E i \in DOMAIN finders :
            \/ /\ HasStorages(finders[i])
               /\ \E k \in DOMAIN Storages(finders[i]) : Storages(finders[i])[k] = d
            \/ /\ HasStorage(finders[i])
               /\ StorageLocation(finders[i]) = d}

AllResolve(finders) == \A i \in DOMAIN finders : Resolves(finders[i])

\* the directories named by the flags of a style-sheet 'paths' value
FlagDirs(v) == {v[i + 1] : i \in {j \in DOMAIN v : v[j] = "--include-path "}}

\* the directories of a module 'paths' value, split at the separator
SplitDirs(v, sep) == {v[i] : i \in {j \in DOMAIN v : v[j] # sep}}

\* the call of input() on the current instance is over
CallOver == pc \in {"returned", "raised"}

\* C1: in no terminal state of a job (input() returned or raised) is a
\* temporary input file that input() created still held.
C1_TempInputReleasedOnEveryExit ==
    CallOver => \A n \in DOMAIN fs : ~fs[n].held

\* C2: once input() has been entered, the job has a temporary input file
\* exactly when its command has {infile} and no filename was given; the file
\* has the class's extension (.scss, .js) and, once the call that created it
\* has recorded it, its name is the value of an 'infile' option; without such a file BaseCompiler has added no
\* 'infile' option.
C2_TempInputIffNeeded ==
    /\ calls >= 1 =>
          (DOMAIN fs # {} <=> ("infile" \in command /\ filename = None))
    /\ \A n \in DOMAIN fs :
          /\ kind = "SCSSCompiler" => Ext(n) = ".scss"
          /\ kind = "ES6Compiler" => Ext(n) = ".js"
          /\ infile = n
          /\ (fresh /\ (pc \in {"super", "popen", "returned"}
                          \/ (pc = "raised" /\ exc \in {"KeyError", "FilterError"})))
             => \E i \in DOMAIN options : options[i] = <<"infile", n>>
    /\ DOMAIN fs = {} => BaseInfileEntries = {}

C2_Witness ==
    /\ pc = "popen" /\ kind = "SCSSCompiler" /\ fresh
    /\ \E n \in DOMAIN fs : Ext(n) = ".scss" /\ Dict(options)["infile"] = n

\* the placeholders of the command that no option, filename or temporary
\* output file gives a value
Unresolved ==
    {p \in command :
        /\ p \notin Keys(options)
        /\ p # "outfile"
        /\ ~(p = "infile" /\ filename # None)}

\* C3: a command handed to the process invoker has a value for every
\* placeholder of the template and none is left as a literal {name}; a job
\* whose template has a placeholder without a value never reaches the process
\* invoker.
C3_NoPartialCommandInvoked ==
    /\ \A c \in invoked \cup (IF pc = "popen" THEN {cmdline} ELSE {}) :
          /\ DOMAIN c = command
          /\ \A p \in DOMAIN c : c[p] # Literal(p)
    /\ Unresolved # {} => (pc # "popen" /\ invoked = {})

C3_Witness ==
    /\ pc = "raised" /\ exc = "KeyError"
    /\ "missing" \in command /\ "missing" \in Unresolved
    /\ invoked = {}

\* the directories a computed 'paths' value names
PathsDirs(v) == {v[i] : i \in DOMAIN v} \cap Dirs

\* the index of the 'paths' entry the constructor computed
ComputedPaths == IF kind = "ES6Compiler" THEN 2 ELSE 1

\* C4: if a configured finder cannot be resolved, the construction fails and
\* the job has no options, no substituted command and no invoked process; the
\* 'paths' value of every constructed job names the roots of all configured
\* finders.
C4_UnresolvedFinderFailsJob ==
    /\ ~AllResolve(STATICFILES_FINDERS) =>
          /\ pc \in {"none", "init_raised"}
          /\ options = <<>> /\ cmdline = NoCommand /\ invoked = {}
    /\ pc \notin {"none", "init_raised"} =>
          PathsDirs(options[ComputedPaths][2]) = ExposedRoots(STATICFILES_FINDERS)

C4_Witness ==
    /\ pc = "init_raised" /\ exc = "ImproperlyConfigured"
    /\ ExposedRoots(STATICFILES_FINDERS) # {}

\* C5: for a list of resolvable finders get_all_static() returns exactly the
\* locations of their `storages` values and of their single `storage`, each
\* once, and a finder with neither attribute adds nothing and raises nothing.
C5_StaticDirsExact ==
    (static_ret.called /\ AllResolve(STATICFILES_FINDERS)) =>
        /\ ~static_ret.raised
        /\ static_ret.dirs = ExposedRoots(STATICFILES_FINDERS)

C5_Witness ==
    /\ static_ret.called
    /\ STATICFILES_FINDERS = <<"default", "fs">>
    /\ static_ret.dirs = {"/a/static", "/b/static"}

\* C6: the style-sheet 'paths' value has one `--include-path d` per returned
\* directory d and no other flag, the module 'paths' value is the returned
\* directories separated by os.pathsep; for an empty set both are empty.
C6_PathsValueNamesExactlyTheRoots ==
    LET R == static_ret.dirs
        v == paths_ret.value
    IN  /\ paths_ret.kind = "SCSSCompiler" =>
              /\ FlagDirs(v) = R
              /\ Cardinality({j \in DOMAIN v : v[j] = "--include-path "})
                     = Cardinality(R)
              /\ R = {} => v = <<>>
        /\ paths_ret.kind = "ES6Compiler" =>
              /\ SplitDirs(v, pathsep) = R
              /\ R # {} => Len(v) = 2 * Cardinality(R) - 1
              /\ \A j \in DOMAIN v : (j % 2 = 0) <=> (v[j] = pathsep)
              /\ R = {} => v = <<>>

C6_Witness ==
    /\ paths_ret.kind = "SCSSCompiler"
    /\ static_ret.dirs = {"/a/static", "/b/static"}
    /\ paths_ret.value = <<"--include-path ", "/b/static", " ",
                           "--include-path ", "/a/static">>

C8_NoStateSharedAcrossJobs ==
    /\ class_options = <<>>
    /\ pc = "ready" =>
          /\ Len(options) >= ComputedPaths
          /\ options[ComputedPaths][1] = "paths"
          /\ PathsDirs(options[ComputedPaths][2]) = ExposedRoots(STATICFILES_FINDERS)
          /\ kind = "ES6Compiler" =>
                options[1] = <<"node_modules", NodeModules(COMPRESS_NODE_MODULES)>>
          /\ \E extra \in ExtraOptions :
                SubSeq(options, ComputedPaths + 1, Len(options))
                    = Kwargs(filename, extra)
          /\ BaseInfileEntries = {}

C8_Witness ==
    /\ jobs = 2 /\ pc = "ready" /\ kind = "ES6Compiler"
    /\ Len(options) = 2
    /\ STATICFILES_FINDERS = <<"fs">>

\* the bytes the content encodes to
EncodedContent ==
    CASE content = <<"a">> -> <<"61">>
      [] content = <<"a", "e-acute">> /\ default_encoding = "utf-8"
             -> <<"61", "c3", "a9">>
      [] OTHER -> <<"unencodable">>

\* C9: in a call of input() that created the temporary file, from the moment
\* the 'infile' option is about to be recorded until the process has run, the
\* file on disk holds the whole encoded content and nothing is left in the
\* buffer.
C9_FlushedBeforeRecordAndRun ==
    (fresh /\ pc \in {"record", "super", "popen"}) =>
        /\ fs[infile].held
        /\ fs[infile].buf = <<>>
        /\ fs[infile].disk = EncodedContent

C9_Witness ==
    /\ fresh /\ pc = "popen"
    /\ content = <<"a", "e-acute">>
    /\ fs[infile].disk = <<"61", "c3", "a9">>

\* C10: whenever control passes to the base filter with an 'infile' option
\* that BaseCompiler.input recorded, the file it names is still held; at most
\* one such entry is ever in the instance's options.
C10_RecordedInfileIsHeld ==
    /\ pc = "super" =>
          \A i \in BaseInfileEntries :
              /\ options[i][2] \in DOMAIN fs
              /\ fs[options[i][2]].held
    /\ Cardinality(BaseInfileEntries) <= 1

=============================================================================
